---- MODULE Spec2Model ----
(***************************************************************************)
(* Model of the real-time co-simulation driver                             *)
(*   FMU_CPP_Wrapper/run_simulation_with_cpp_wrapper_fmu_wall_clock.py     *)
(* main() is a single sequential thread; every statement that touches the  *)
(* slave, the wall clock or the result list is one action, in program      *)
(* order.  Python floats are IEEE-754 binary64 values; they are modelled   *)
(* exactly, as sign and magnitude in units of 2^-56 held in two 30-bit     *)
(* limbs, with every arithmetic result rounded to 53 significant bits      *)
(* (round to nearest, ties to even).                                       *)
(***************************************************************************)
EXTENDS Integers, Sequences, FiniteSets, TLC

(***************************************************************************)
(* Bounds of the model                                                     *)
(***************************************************************************)
\* stop_time - start_time ranges over 0, 1/2, ..., MaxStopHalves/2
MaxStopHalves == 2
\* one doStep takes 0, 1/4, ..., MaxWork/4 seconds of wall-clock time
MaxWork == 1
\* a sleep returns 0, 1/4, ..., MaxOverrun/4 seconds late
MaxOverrun == 1

(***************************************************************************)
(* binary64 arithmetic                                                     *)
(***************************************************************************)
Base == 2^30

\* significand width of a Python float
Precision == 53

Dbl(neg, hi, lo) == [neg |-> neg, hi |-> hi, lo |-> lo]

Zero == Dbl(FALSE, 0, 0)

IsZero(a) == a.hi = 0 /\ a.lo = 0

Negate(a) == IF IsZero(a) THEN a ELSE [a EXCEPT !.neg = ~a.neg]

MagLess(a, b) == a.hi < b.hi \/ (a.hi = b.hi /\ a.lo < b.lo)

MagAdd(a, b) ==
    LET l == a.lo + b.lo
    IN  [hi |-> a.hi + b.hi + (l \div Base), lo |-> l % Base]

\* requires ~MagLess(a, b)
MagSub(a, b) ==
    LET borrow == IF a.lo < b.lo THEN 1 ELSE 0
    IN  [hi |-> a.hi - b.hi - borrow, lo |-> a.lo + borrow * Base - b.lo]

\* the exact (unrounded) sum of two values
ExactAdd(a, b) ==
    IF a.neg = b.neg
    THEN LET m == MagAdd(a, b) IN Dbl(a.neg, m.hi, m.lo)
    ELSE IF MagLess(a, b)
         THEN LET m == MagSub(b, a) IN Dbl(b.neg, m.hi, m.lo)
         ELSE LET m == MagSub(a, b)
              IN  Dbl(a.neg /\ ~(m.hi = 0 /\ m.lo = 0), m.hi, m.lo)

RECURSIVE BitLen(_)
BitLen(x) == IF x = 0 THEN 0 ELSE 1 + BitLen(x \div 2)

\* round an exact value to Precision significant bits, ties to even
RoundNearestEven(a) ==
    LET len == IF a.hi = 0 THEN BitLen(a.lo) ELSE 30 + BitLen(a.hi)
        s   == len - Precision
    IN  IF s <= 0 THEN a
        ELSE LET unit  == 2^s
                 r     == a.lo % unit
                 q_odd == (a.lo \div unit) % 2 = 1
                 up    == (2 * r > unit) \/ (2 * r = unit /\ q_odd)
                 lo2   == a.lo - r + (IF up THEN unit ELSE 0)
             IN  Dbl(a.neg, a.hi + (lo2 \div Base), lo2 % Base)

FloatAdd(a, b) == RoundNearestEven(ExactAdd(a, b))

FloatSub(a, b) == RoundNearestEven(ExactAdd(a, Negate(b)))

FloatLess(a, b) ==
    IF a.neg /= b.neg THEN a.neg
    ELSE IF a.neg THEN MagLess(b, a) ELSE MagLess(a, b)

FloatLeq(a, b) == ~FloatLess(b, a)

\* the exact product k * a of a small natural number and a value
RECURSIVE Times(_, _)
Times(k, a) == IF k = 0 THEN Zero ELSE ExactAdd(a, Times(k - 1, a))

\* the binary64 literals of the schedules
Tenth     == Dbl(FALSE, 6710886, 429496730)
Quarter   == Dbl(FALSE, 2^24, 0)
Half      == Dbl(FALSE, 2^25, 0)
One       == Dbl(FALSE, 2^26, 0)

(***************************************************************************)
(* Values exchanged with the slave                                         *)
(***************************************************************************)
\* a scalar signal value: unset, sin(pi * at), or gain * sin(pi * at)
Unset == [src |-> "unset", gain |-> FALSE, at |-> Zero]

\* np.sin(sim_time * np.pi), kept symbolic in its argument
SinPi(t) == [src |-> "sin_pi", gain |-> FALSE, at |-> t]

\* the amplifier's output equation y = k * u
Amplify(u) == [u EXCEPT !.gain = TRUE]

\* value references published by the interface description
ValueReference(name) == CASE name = "u" -> 0 [] name = "y" -> 1 [] OTHER -> 2

\* variant: vrs.get(name, 0), which never raises
Lookup_WithDefault(d, name) ==
    [found |-> TRUE, vr |-> IF name \in DOMAIN d THEN d[name] ELSE 0]

\* dict lookup vrs[name]; a missing key raises KeyError
Lookup(d, name) ==
    IF name \in DOMAIN d THEN [found |-> TRUE, vr |-> d[name]]
    ELSE [found |-> FALSE, vr |-> 0 - 1]

(***************************************************************************)
(* Inputs of a run                                                         *)
(***************************************************************************)
VariableSets == {{"u", "y"}, {"u", "y", "k"}, {"u", "k"}, {"y"}, {}}
StartTimes   == {Negate(Half), Zero, Half}
StepSizes    == {Tenth, Quarter}
Durations    == {Times(k, Half) : k \in 0..MaxStopHalves}
Origins      == {Zero, One}
WorkTimes    == {Times(k, Quarter) : k \in 0..MaxWork}
Overruns     == {Times(k, Quarter) : k \in 0..MaxOverrun}

\* slave calls that report a status and therefore can raise
StatusOps == {"instantiate", "setupExperiment", "enterInitializationMode",
              "exitInitializationMode", "setReal", "doStep", "getReal",
              "terminate"}

VARIABLES
    pc,                     \* the statement main() executes next
    fmu_exists,             \* os.path.exists(WRAPPER_FMU_PATH)
    modelVariables,         \* names in model_description.modelVariables
    start_time, stop_time, step_size,
    wall,                   \* the physical wall clock
    vrs, vr_u, vr_y,
    fmu,                    \* the slave: constructed flag and its u, y
    sim_time, results, real_world_start_time,
    target_real_time, sleep_duration,
    u_signal_value, output_y,
    exc,                    \* the exception that left main(), if any
    plotted,                \* what plot_result received
    trace,                  \* history: slave calls and loop events
    slept,                  \* history: the last pacing called sleep
    fell_behind             \* history: a step after the first found its
                            \* deadline already reached

vars == <<pc, fmu_exists, modelVariables, start_time, stop_time, step_size,
          wall, vrs, vr_u, vr_y, fmu, sim_time, results,
          real_world_start_time, target_real_time, sleep_duration,
          u_signal_value, output_y, exc, plotted, trace, slept,
          fell_behind>>

config == <<fmu_exists, modelVariables, start_time, stop_time, step_size>>
locals == <<vrs, vr_u, vr_y, sim_time, results, real_world_start_time,
            target_real_time, sleep_duration, u_signal_value, output_y>>

history == <<slept, fell_behind>>

NoException == [kind |-> "none", op |-> "none"]

\* index of the loop iteration in progress
StepIndex == Len(results)

Event(op, t, val, ok) ==
    [op |-> op, n |-> StepIndex, t |-> t, val |-> val, ok |-> ok]

Init ==
    /\ pc = "check_exists"
    /\ fmu_exists \in BOOLEAN
    /\ modelVariables \in VariableSets
    /\ start_time \in StartTimes
    /\ step_size \in StepSizes
    /\ \E d \in Durations : stop_time = FloatAdd(start_time, d)
    /\ wall \in Origins
    /\ vrs = [name \in {} |-> 0]
    /\ vr_u = 0 - 1
    /\ vr_y = 0 - 1
    /\ fmu = [constructed |-> FALSE, u |-> Unset, y |-> Unset]
    /\ sim_time = Zero
    /\ results = <<>>
    /\ real_world_start_time = Zero
    /\ target_real_time = Zero
    /\ sleep_duration = Zero
    /\ u_signal_value = Unset
    /\ output_y = Unset
    /\ exc = NoException
    /\ plotted = [shown |-> FALSE, data |-> <<>>]
    /\ trace = <<>>
    /\ slept = FALSE
    /\ fell_behind = FALSE

\* an exception propagates out of main(): nothing below the raising line runs
Raise(kind, op) ==
    /\ pc' = "raised"
    /\ exc' = [kind |-> kind, op |-> op]

\* a call on the slave: logged, then either it returns or it raises
SlaveCall(op, t, val, ok, next) ==
    /\ trace' = Append(trace, Event(op, t, val, ok))
    /\ IF ok THEN pc' = next /\ exc' = exc
             ELSE Raise("FMICallException", op)

Outcomes(op) == IF op \in StatusOps THEN BOOLEAN ELSE {TRUE}

(***************************************************************************)
(* main(), statement by statement                                          *)
(***************************************************************************)
\* if not os.path.exists(WRAPPER_FMU_PATH): print(...); return
CheckExists ==
    /\ pc = "check_exists"
    /\ pc' = IF fmu_exists THEN "read_model_description" ELSE "returned"
    /\ UNCHANGED <<config, locals, wall, fmu, exc, plotted, trace, history>>

\* model_description = read_model_description(...); unzipdir = extract(...)
\* vrs = {variable.name: variable.valueReference for variable in ...}
ReadModelDescription ==
    /\ pc = "read_model_description"
    /\ vrs' = [name \in modelVariables |-> ValueReference(name)]
    /\ pc' = "resolve_u"
    /\ UNCHANGED <<config, wall, vr_u, vr_y, fmu, sim_time, results,
                   real_world_start_time, target_real_time, sleep_duration,
                   u_signal_value, output_y, exc, plotted, trace, history>>

\* vr_u = vrs['u']
ResolveU ==
    /\ pc = "resolve_u"
    /\ LET r == Lookup(vrs, "u")
       IN  IF r.found
           THEN vr_u' = r.vr /\ pc' = "resolve_y" /\ exc' = exc
           ELSE vr_u' = vr_u /\ Raise("KeyError", "u")
    /\ UNCHANGED <<config, wall, vrs, vr_y, fmu, sim_time, results,
                   real_world_start_time, target_real_time, sleep_duration,
                   u_signal_value, output_y, plotted, trace, history>>

\* vr_y = vrs['y']
ResolveY ==
    /\ pc = "resolve_y"
    /\ LET r == Lookup(vrs, "y")
       IN  IF r.found
           THEN vr_y' = r.vr /\ pc' = "construct" /\ exc' = exc
           ELSE vr_y' = vr_y /\ Raise("KeyError", "y")
    /\ UNCHANGED <<config, wall, vrs, vr_u, fmu, sim_time, results,
                   real_world_start_time, target_real_time, sleep_duration,
                   u_signal_value, output_y, plotted, trace, history>>

\* fmu = FMU2Slave(guid=..., unzipDirectory=..., modelIdentifier=..., ...)
Construct ==
    /\ pc = "construct"
    /\ fmu' = [fmu EXCEPT !.constructed = TRUE]
    /\ pc' = "instantiate"
    /\ UNCHANGED <<config, locals, wall, exc, plotted, trace, history>>

\* fmu.instantiate()
Instantiate ==
    /\ pc = "instantiate"
    /\ \E ok \in Outcomes("instantiate") :
          SlaveCall("instantiate", Zero, Unset, ok, "setupExperiment")
    /\ UNCHANGED <<config, locals, wall, fmu, plotted, history>>

\* fmu.setupExperiment(startTime=start_time, stopTime=stop_time)
SetupExperiment ==
    /\ pc = "setupExperiment"
    /\ \E ok \in Outcomes("setupExperiment") :
          SlaveCall("setupExperiment", start_time, Unset, ok,
                    "enterInitializationMode")
    /\ UNCHANGED <<config, locals, wall, fmu, plotted, history>>

\* fmu.enterInitializationMode()
EnterInitializationMode ==
    /\ pc = "enterInitializationMode"
    /\ \E ok \in Outcomes("enterInitializationMode") :
          SlaveCall("enterInitializationMode", Zero, Unset, ok,
                    "exitInitializationMode")
    /\ UNCHANGED <<config, locals, wall, fmu, plotted, history>>

\* variant: the exitInitializationMode() call is left out
ExitInitializationMode_Omitted ==
    /\ pc = "exitInitializationMode"
    /\ pc' = "loop_init"
    /\ UNCHANGED <<config, locals, wall, fmu, exc, plotted, trace, history>>

\* fmu.exitInitializationMode()
ExitInitializationMode ==
    /\ pc = "exitInitializationMode"
    /\ \E ok \in Outcomes("exitInitializationMode") :
          SlaveCall("exitInitializationMode", Zero, Unset, ok, "loop_init")
    /\ UNCHANGED <<config, locals, wall, fmu, plotted, history>>

\* the reading wall_clock.perf_counter() returns
PerfCounter == RoundNearestEven(wall)

\* sim_time = start_time; results = []
\* real_world_start_time = wall_clock.perf_counter()
LoopInit ==
    /\ pc = "loop_init"
    /\ sim_time' = start_time
    /\ results' = <<>>
    /\ real_world_start_time' = PerfCounter
    /\ pc' = "loop_test"
    /\ UNCHANGED <<config, wall, vrs, vr_u, vr_y, fmu, target_real_time,
                   sleep_duration, u_signal_value, output_y, exc, plotted,
                   trace, history>>

\* while sim_time < stop_time:
LoopCondition(t, stop) == FloatLess(t, stop)

LoopTest ==
    /\ pc = "loop_test"
    /\ pc' = IF LoopCondition(sim_time, stop_time) THEN "pace" ELSE "terminate"
    /\ UNCHANGED <<config, locals, wall, fmu, exc, plotted, trace, history>>

\* target_real_time = real_world_start_time + sim_time
TargetRealTime(origin, t) == FloatAdd(origin, t)

\* variant: sleep is called whatever the sign of the duration
ShouldSleep_Always(d) == TRUE

\* if sleep_duration > 0:
ShouldSleep(d) == FloatLess(Zero, d)

\* target_real_time = ...; sleep_duration = target_real_time - perf_counter()
\* if sleep_duration > 0: wall_clock.sleep(sleep_duration)
Pace ==
    /\ pc = "pace"
    /\ LET target == TargetRealTime(real_world_start_time, sim_time)
           d      == FloatSub(target, PerfCounter)
       IN  /\ target_real_time' = target
           /\ sleep_duration' = d
           /\ IF ShouldSleep(d)
              THEN /\ \E o \in Overruns :
                         wall' = ExactAdd(wall, ExactAdd(d, o))
                   /\ slept' = TRUE
                   /\ fell_behind' = fell_behind
              ELSE /\ wall' = wall
                   /\ slept' = FALSE
                   /\ fell_behind' = (fell_behind \/ StepIndex > 0)
           /\ trace' = Append(trace, Event("wait", target, Unset, TRUE))
    /\ pc' = "setReal"
    /\ UNCHANGED <<config, vrs, vr_u, vr_y, fmu, sim_time, results,
                   real_world_start_time, u_signal_value, output_y, exc,
                   plotted>>

\* u_signal_value = np.sin(sim_time * np.pi)
\* fmu.setReal([vr_u], [u_signal_value])
SetReal ==
    /\ pc = "setReal"
    /\ u_signal_value' = SinPi(sim_time)
    /\ \E ok \in Outcomes("setReal") :
          /\ SlaveCall("setReal", sim_time, u_signal_value', ok, "doStep")
          /\ fmu' = IF ok /\ vr_u = ValueReference("u")
                    THEN [fmu EXCEPT !.u = u_signal_value'] ELSE fmu
    /\ UNCHANGED <<config, wall, vrs, vr_u, vr_y, sim_time, results,
                   real_world_start_time, target_real_time, sleep_duration,
                   output_y, plotted, history>>

\* fmu.doStep(currentCommunicationPoint=sim_time,
\*            communicationStepSize=step_size)
DoStep ==
    /\ pc = "doStep"
    /\ \E ok \in Outcomes("doStep") :
          /\ SlaveCall("doStep", sim_time, fmu.u, ok, "getReal")
          /\ fmu' = IF ok THEN [fmu EXCEPT !.y = Amplify(fmu.u)] ELSE fmu
    /\ \E w \in WorkTimes : wall' = ExactAdd(wall, w)
    /\ UNCHANGED <<config, locals, plotted, history>>

\* output_y = fmu.getReal([vr_y])[0]
GetReal ==
    /\ pc = "getReal"
    /\ \E ok \in Outcomes("getReal") :
          /\ SlaveCall("getReal", sim_time, fmu.y, ok, "append")
          /\ output_y' = IF ok THEN fmu.y ELSE output_y
    /\ UNCHANGED <<config, wall, vrs, vr_u, vr_y, fmu, sim_time, results,
                   real_world_start_time, target_real_time, sleep_duration,
                   u_signal_value, plotted, history>>

\* (sim_time, u_signal_value, output_y)
Sample(t, u, y) == [time |-> t, u |-> u, y |-> y]

\* sim_time += step_size
Advance(t, h) == FloatAdd(t, h)

\* variant: sim_time is advanced before the sample is appended
AppendResult_AdvanceFirst ==
    /\ pc = "append"
    /\ trace' = Append(trace, Event("append", sim_time, output_y, TRUE))
    /\ sim_time' = Advance(sim_time, step_size)
    /\ results' = Append(results, Sample(sim_time', u_signal_value, output_y))
    /\ pc' = "loop_test"
    /\ UNCHANGED <<config, wall, vrs, vr_u, vr_y, fmu,
                   real_world_start_time, target_real_time, sleep_duration,
                   u_signal_value, output_y, exc, plotted, history>>

\* results.append((sim_time, u_signal_value, output_y))
\* sim_time += step_size
AppendResult ==
    /\ pc = "append"
    /\ trace' = Append(trace, Event("append", sim_time, output_y, TRUE))
    /\ results' = Append(results, Sample(sim_time, u_signal_value, output_y))
    /\ sim_time' = Advance(sim_time, step_size)
    /\ pc' = "loop_test"
    /\ UNCHANGED <<config, wall, vrs, vr_u, vr_y, fmu,
                   real_world_start_time, target_real_time, sleep_duration,
                   u_signal_value, output_y, exc, plotted, history>>

\* fmu.terminate()
Terminate ==
    /\ pc = "terminate"
    /\ \E ok \in Outcomes("terminate") :
          SlaveCall("terminate", Zero, Unset, ok, "freeInstance")
    /\ UNCHANGED <<config, locals, wall, fmu, plotted, history>>

\* fmu.freeInstance()
FreeInstance ==
    /\ pc = "freeInstance"
    /\ \E ok \in Outcomes("freeInstance") :
          SlaveCall("freeInstance", Zero, Unset, ok, "plot_result")
    /\ UNCHANGED <<config, locals, wall, fmu, plotted, history>>

\* result_array = np.array(results, ...); plot_result(result_array, ...)
PlotResult ==
    /\ pc = "plot_result"
    /\ plotted' = [shown |-> TRUE, data |-> results]
    /\ pc' = "done"
    /\ UNCHANGED <<config, locals, wall, fmu, exc, trace, history>>

Ended == pc \in {"returned", "raised", "done"}

\* the only cancellation the script has: SIGINT raises KeyboardInterrupt
\* between two statements, and main() has no handler for it
KeyboardInterrupt ==
    /\ ~Ended
    /\ Raise("KeyboardInterrupt", pc)
    /\ UNCHANGED <<config, locals, wall, fmu, plotted, trace, history>>

Next ==
    \/ CheckExists
    \/ ReadModelDescription
    \/ ResolveU
    \/ ResolveY
    \/ Construct
    \/ Instantiate
    \/ SetupExperiment
    \/ EnterInitializationMode
    \/ ExitInitializationMode
    \/ LoopInit
    \/ LoopTest
    \/ Pace
    \/ SetReal
    \/ DoStep
    \/ GetReal
    \/ AppendResult
    \/ Terminate
    \/ FreeInstance
    \/ PlotResult
    \/ KeyboardInterrupt

Spec == Init /\ [][Next]_vars

(***************************************************************************)
(* Vocabulary of the properties                                            *)
(***************************************************************************)
SlaveOps == StatusOps \cup {"freeInstance"}
StepOps  == {"setReal", "doStep", "getReal"}
LoopOps  == StepOps \cup {"wait", "append"}
LoopPcs  == {"loop_test", "pace", "setReal", "doStep", "getReal", "append"}

IsSlaveCall(e) == e.op \in SlaveOps
IsLoopEvent(e) == e.op \in LoopOps

\* the calls made on the slave, in order
Calls == SelectSeq(trace, IsSlaveCall)

\* the events of the loop body, in order
LoopEvents == SelectSeq(trace, IsLoopEvent)

Count(op) == Cardinality({i \in 1..Len(trace) : trace[i].op = op})

\* instantiate() has returned
Instantiated == \E i \in 1..Len(trace) :
                    trace[i].op = "instantiate" /\ trace[i].ok

StepFailure == pc = "raised" /\ exc.kind = "FMICallException"
               /\ exc.op \in StepOps

\* position of a slave call in the lifecycle
Rank(op) ==
    CASE op = "instantiate"             -> 1
      [] op = "setupExperiment"         -> 2
      [] op = "enterInitializationMode" -> 3
      [] op = "exitInitializationMode"  -> 4
      [] op \in StepOps                 -> 5
      [] op = "terminate"               -> 6
      [] OTHER                          -> 7

\* the step times and the step count the schedule prescribes
GridLimit == 5 * MaxStopHalves + 2
GridTime(n) == FloatAdd(start_time, RoundNearestEven(Times(n, step_size)))
GridCount == Cardinality({n \in 0..GridLimit :
                              FloatLess(GridTime(n), stop_time)})

\* the number of iterations of the loop of main() for a schedule,
\* whatever the wall clock does
RECURSIVE LoopCount(_, _, _)
LoopCount(t, stop, h) ==
    IF LoopCondition(t, stop) THEN 1 + LoopCount(Advance(t, h), stop, h)
    ELSE 0

(***************************************************************************)
(* C1  Once instantiate() has returned, terminate and freeInstance are     *)
(* each called exactly once on every exit path: normal completion, and a   *)
(* failure of setReal, doStep or getReal at any step.                      *)
(***************************************************************************)
C1_TeardownOnEveryExit ==
    (Instantiated /\ (pc = "done" \/ StepFailure))
        => (Count("terminate") = 1 /\ Count("freeInstance") = 1)

(***************************************************************************)
(* C2  The calls on the slave follow the lifecycle order instantiate,      *)
(* setupExperiment, enterInitializationMode, exitInitializationMode, any   *)
(* number of setReal/doStep/getReal, terminate, freeInstance; every call   *)
(* is made only after the previous one has returned, so no step call       *)
(* precedes the return of exitInitializationMode or follows terminate.     *)
(***************************************************************************)
C2_LifecycleOrder ==
    LET calls == Calls
    IN  \A i \in 1..Len(calls) :
            LET r == Rank(calls[i].op)
            IN  IF i = 1 THEN r = 1
                ELSE LET q == Rank(calls[i - 1].op)
                     IN  /\ calls[i - 1].ok
                         /\ \/ r = q + 1
                            \/ r = 5 /\ q = 5
                            \/ r = 6 /\ q = 4

C2_Witness ==
    /\ pc = "done"
    /\ Count("doStep") >= 2
    /\ Calls[Len(Calls)].op = "freeInstance"

(***************************************************************************)
(* C3  A run that completes normally on a schedule with stop_time >        *)
(* start_time records exactly one sample per step index n with             *)
(* start_time + n*step_size < stop_time, at exactly that time.             *)
(***************************************************************************)
C3_SamplesOnGrid ==
    (pc = "done" /\ FloatLess(start_time, stop_time))
        => /\ Len(results) = GridCount
           /\ \A i \in 1..Len(results) : results[i].time = GridTime(i - 1)

(***************************************************************************)
(* C4  The deadline computed for step n is origin + (t_n - start_time),    *)
(* that is origin + n*step_size, for any start_time.                       *)
(***************************************************************************)
C4_DeadlineAnchored ==
    pc = "setReal"
        => /\ target_real_time =
                 FloatAdd(real_world_start_time,
                          FloatSub(sim_time, start_time))
           /\ target_real_time =
                 FloatAdd(real_world_start_time,
                          RoundNearestEven(Times(StepIndex, step_size)))

(***************************************************************************)
(* C5  The input write and the doStep of step n are issued no earlier      *)
(* than wall-clock time origin + n*step_size.                              *)
(***************************************************************************)
C5_NotBeforeDeadline ==
    pc \in {"setReal", "doStep"}
        => FloatLeq(ExactAdd(real_world_start_time,
                             Times(StepIndex, step_size)),
                    wall)

(***************************************************************************)
(* C6  When doStep fails at step k no further call is made on the slave    *)
(* and the trajectory handed on holds exactly the samples of steps         *)
(* 0..k-1.                                                                 *)
(***************************************************************************)
C6_PartialTrajectoryDelivered ==
    (pc = "raised" /\ exc.kind = "FMICallException" /\ exc.op = "doStep")
        => /\ trace[Len(trace)].op = "doStep"
           /\ ~trace[Len(trace)].ok
           /\ Len(results) = trace[Len(trace)].n
           /\ plotted.shown
           /\ plotted.data = results

(***************************************************************************)
(* C7  When 'u' or 'y' is not a variable of the interface description,     *)
(* the lookup fails before the slave is constructed or any call is made    *)
(* on it; the run never starts.                                            *)
(***************************************************************************)
C7_UnknownSignalStopsBeforeSlave ==
    ~({"u", "y"} \subseteq modelVariables)
        => /\ ~fmu.constructed
           /\ Calls = <<>>
           /\ pc \in {"check_exists", "read_model_description", "resolve_u",
                      "resolve_y", "returned", "raised"}
           /\ (pc = "raised" => exc.kind \in {"KeyError", "KeyboardInterrupt"})

C7_Witness ==
    /\ pc = "raised"
    /\ exc = [kind |-> "KeyError", op |-> "y"]
    /\ "u" \in modelVariables
    /\ vr_u = 0
    /\ trace = <<>>

(***************************************************************************)
(* C8  A cancellation requested during the loop ends the run normally:     *)
(* no error, the samples of the completed steps delivered, terminate       *)
(* called once.                                                            *)
(***************************************************************************)
C8_CancellationIsNormalEnd ==
    (Ended /\ exc.kind = "KeyboardInterrupt" /\ exc.op \in LoopPcs)
        => /\ pc /= "raised"
           /\ Count("terminate") = 1
           /\ plotted.shown
           /\ plotted.data = results

(***************************************************************************)
(* C9  When the deadline of step n is already reached the driver does      *)
(* not sleep and raises nothing, step n is executed next, and a run that   *)
(* completes has executed exactly the step indices of its schedule,        *)
(* however far it fell behind.                                             *)
(***************************************************************************)
C9_LateStepNotSkipped ==
    /\ (pc = "setReal" /\ ~FloatLess(Zero, sleep_duration))
          => /\ ~slept
             /\ exc = NoException
             /\ trace[Len(trace)].op = "wait"
             /\ trace[Len(trace)].n = StepIndex
    /\ (pc \in LoopPcs /\ slept) => FloatLess(Zero, sleep_duration)
    /\ pc = "done"
          => /\ Len(results) = LoopCount(start_time, stop_time, step_size)
             /\ \A i \in 1..Len(results) :
                   \E j \in 1..Len(trace) :
                       /\ trace[j].op = "doStep"
                       /\ trace[j].n = i - 1
                       /\ trace[j].ok

C9_Witness ==
    /\ pc = "done"
    /\ fell_behind
    /\ Len(results) >= 3

(***************************************************************************)
(* C10  Every iteration performs wait, setReal, doStep, getReal, append    *)
(* in that order, iterations follow each other in increasing index order   *)
(* with one step at a time, and the sample of step n holds the time of     *)
(* its doStep, the input written just before that doStep and the output    *)
(* read just after it.                                                     *)
(***************************************************************************)
Cycle == <<"wait", "setReal", "doStep", "getReal", "append">>

C10_IterationOrder ==
    LET events == LoopEvents
    IN  /\ \A j \in 1..Len(events) :
              /\ events[j].op = Cycle[((j - 1) % 5) + 1]
              /\ events[j].n = (j - 1) \div 5
        /\ \A i \in 1..Len(results) :
              LET write == events[5 * (i - 1) + 2]
                  step  == events[5 * (i - 1) + 3]
                  read  == events[5 * (i - 1) + 4]
              IN  /\ write.ok /\ step.ok /\ read.ok
                  /\ results[i].time = step.t
                  /\ results[i].u = write.val
                  /\ write.val = SinPi(step.t)
                  /\ step.val = write.val
                  /\ results[i].y = read.val
                  /\ read.val = Amplify(write.val)
        /\ \A i \in 1..(Len(results) - 1) :
              FloatLess(results[i].time, results[i + 1].time)

C10_Witness ==
    /\ pc = "done"
    /\ Len(results) >= 3
    /\ results[3].y = Amplify(SinPi(results[3].time))

====
